---- MODULE Spec2Model ----
(***************************************************************************)
(* idiokit: one HTTP/1.x exchange of idiokit.http.client (Client.request,   *)
(* the body writer chosen by Client._resolve_headers, ClientRequest.write   *)
(* and finish, read_status_line, the body reader chosen by ClientResponse), *)
(* the hosts file and resolv.conf of idiokit.dns._conf with their loaders,  *)
(* host lookup over the hosts table, and idiokit._time.FallbackTime.        *)
(* Byte strings are sequences of one-character strings, so that lower(),    *)
(* strip(), split(), the status-line pattern and int() are computed and not *)
(* assumed.                                                                 *)
(***************************************************************************)
EXTENDS Integers, Sequences, FiniteSets, TLC

VARIABLES
    pc,          \* position of the exchange inside request() / finish()
    method,      \* request(method, ...)
    scheme,      \* urlparse(url).scheme
    verify,      \* Client._verify
    reqHeaders,  \* the caller's headers, after normalized_headers
    dataLen,     \* len(data) of request(..., data)
    lookup,      \* candidates host_lookup still has to deliver
    peerCert,    \* whether the peer's certificate matches the hostname
    transport,   \* the socket: "none", "plain" or "tls" ("closed" once closed)
    handle,      \* whether connect() has handed the socket to request()
    writer,      \* ClientRequest._writer
    outHeaders,  \* the headers _resolve_headers returned, given to write_headers
    net,         \* network operations completed on the transport, in order
    last,        \* the caller-visible outcome of the last write()/finish()
    calls,       \* number of write() and read() calls made by the caller
    line,        \* what buffered.read_line() returned for the status line
    status,      \* outcome of read_status_line
    respHeaders, \* the headers read_headers returned
    reader,      \* ClientResponse._reader
    error,       \* the exception that ended the exchange
    files,       \* the file system: what open(path) finds at each path
    loaders,     \* the _Loader objects created by hosts() / resolv_conf()
    loaded,      \* the load() calls made so far, with what each returned
    query,       \* the last lookup made and its answer
    elapsed,     \* FallbackTime._elapsed
    origin,      \* FallbackTime._origin
    previous,    \* FallbackTime._previous
    ticks        \* the monotonic() calls made so far: wall clock and result

vars == <<pc, method, scheme, verify, reqHeaders, dataLen, lookup, peerCert,
          transport, handle, writer, outHeaders, net, last, calls, line,
          status, respHeaders, reader, error,
          files, loaders, loaded, query, elapsed, origin, previous, ticks>>

exchangeVars == <<pc, method, scheme, verify, reqHeaders, dataLen, lookup, peerCert,
                  transport, handle, writer, outHeaders, net, last, calls, line,
                  status, respHeaders, reader, error>>

confVars == <<files, loaders, loaded, query>>

timeVars == <<elapsed, origin, previous, ticks>>

(***************************************************************************)
(* Bounds of the model.                                                     *)
(***************************************************************************)
MaxLen == 2
MaxCalls == 2
MaxCandidates == 2

(***************************************************************************)
(* Values.  An optional value is <<>> (None) or <<v>>.                      *)
(***************************************************************************)
None == <<>>

Some(v) == <<v>>

CR == "\r"

LF == "\n"

SP == " "

S_close == <<"c", "l", "o", "s", "e">>

S_Close == <<"C", "l", "o", "s", "e">>

S_keepalive == <<"k", "e", "e", "p", "-", "a", "l", "i", "v", "e">>

S_identity == <<"i", "d", "e", "n", "t", "i", "t", "y">>

S_Identity == <<"I", "d", "e", "n", "t", "i", "t", "y">>

S_chunked == <<"c", "h", "u", "n", "k", "e", "d">>

S_Chunked == <<"C", "h", "u", "n", "k", "e", "d">>

S_CHUNKED == <<"C", "H", "U", "N", "K", "E", "D">>

S_gzip == <<"g", "z", "i", "p">>

S_host == <<"h">>

\* str.lower() on one character.
LowerChar(c) ==
    CASE c = "C" -> "c"
      [] c = "D" -> "d"
      [] c = "E" -> "e"
      [] c = "H" -> "h"
      [] c = "I" -> "i"
      [] c = "K" -> "k"
      [] c = "N" -> "n"
      [] c = "U" -> "u"
      [] OTHER -> c

\* str.lower()
Lower(s) == [i \in DOMAIN s |-> LowerChar(s[i])]

Digits == {"0", "1", "2", "3", "4", "5", "6", "7", "8", "9"}

DigitVal(c) ==
    CASE c = "0" -> 0 [] c = "1" -> 1 [] c = "2" -> 2 [] c = "3" -> 3
      [] c = "4" -> 4 [] c = "5" -> 5 [] c = "6" -> 6 [] c = "7" -> 7
      [] c = "8" -> 8 [] c = "9" -> 9

\* int() of a string of decimal digits.
RECURSIVE ToInt(_)
ToInt(s) ==
    IF s = <<>> THEN 0
    ELSE 10 * ToInt(SubSeq(s, 1, Len(s) - 1)) + DigitVal(s[Len(s)])

\* The first index i >= from with s[i] in set, or Len(s) + 1.
RECURSIVE FirstIn(_, _, _)
FirstIn(s, set, from) ==
    IF from > Len(s) THEN Len(s) + 1
    ELSE IF s[from] \in set THEN from
    ELSE FirstIn(s, set, from + 1)

AllDigits(s) == s # <<>> /\ \A i \in DOMAIN s : s[i] \in Digits

(***************************************************************************)
(* HTTP versions (module httpversion).                                      *)
(***************************************************************************)
HTTP10 == [major |-> 1, minor |-> 0]

HTTP11 == [major |-> 1, minor |-> 1]

S_HTTP == <<"H", "T", "T", "P", "/">>

\* HTTPVersion.from_string: "HTTP/<digits>.<digits>", else ValueError (None).
VersionFromString(s) ==
    LET dot == FirstIn(s, {"."}, 6)
    IN  IF /\ Len(s) >= 8
           /\ SubSeq(s, 1, 5) = S_HTTP
           /\ dot <= Len(s)
           /\ AllDigits(SubSeq(s, 6, dot - 1))
           /\ AllDigits(SubSeq(s, dot + 1, Len(s)))
        THEN Some([major |-> ToInt(SubSeq(s, 6, dot - 1)),
                   minor |-> ToInt(SubSeq(s, dot + 1, Len(s)))])
        ELSE None

(***************************************************************************)
(* read_status_line.                                                        *)
(***************************************************************************)
\* _Buffered.read_line: the bytes up to and including the first LF, or all
\* the bytes the peer sent before closing when there is no LF.
ReadLine(stream) ==
    LET nl == FirstIn(stream, {LF}, 1)
    IN  IF nl > Len(stream) THEN stream ELSE SubSeq(stream, 1, nl)

\* re.match(r"^([^ ]+) (\d{3}) ([^\r\n]*)\r?\n$", line): the groups, or None.
\* [^ ]+ ends at the first space; [^\r\n]* ends at the first CR or LF; "$"
\* matches at the end and before a newline that ends the string.
StatusLineMatch(l) ==
    LET sp   == FirstIn(l, {SP}, 1)
        eor  == FirstIn(l, {CR, LF}, sp + 5)
        tail == SubSeq(l, eor, Len(l))
    IN  IF /\ sp > 1
           /\ Len(l) >= sp + 4
           /\ \A i \in (sp + 1)..(sp + 3) : l[i] \in Digits
           /\ l[sp + 4] = SP
           /\ tail \in {<<LF>>, <<CR, LF>>, <<LF, LF>>, <<CR, LF, LF>>}
        THEN Some([version |-> SubSeq(l, 1, sp - 1),
                   code    |-> SubSeq(l, sp + 1, sp + 3),
                   reason  |-> SubSeq(l, sp + 5, eor - 1)])
        ELSE None

NoStatus == [kind |-> "none"]

\* As ParseStatusLine, without the test for an empty line (lines 26-27).
ParseStatusLine_NoEmptyTest(l) ==
    LET m == StatusLineMatch(l)
    IN  IF m = None THEN [kind |-> "RequestError", what |-> "parse"]
        ELSE LET v == VersionFromString(m[1].version)
             IN  IF v = None
                 THEN [kind |-> "RequestError", what |-> "version"]
                 ELSE [kind    |-> "ok",
                       version |-> v[1],
                       code    |-> ToInt(m[1].code),
                       reason  |-> m[1].reason]

\* The outcome of read_status_line for the line read_line returned.
ParseStatusLine(l) ==
    IF l = <<>> THEN [kind |-> "ConnectionLost"]
    ELSE LET m == StatusLineMatch(l)
         IN  IF m = None THEN [kind |-> "RequestError", what |-> "parse"]
             ELSE LET v == VersionFromString(m[1].version)
                  IN  IF v = None
                      THEN [kind |-> "RequestError", what |-> "version"]
                      ELSE [kind    |-> "ok",
                            version |-> v[1],
                            code    |-> ToInt(m[1].code),
                            reason  |-> m[1].reason]

(***************************************************************************)
(* Header helpers of idiokit.http.server.  A header set is a record of      *)
(* optional values keyed by the lower-cased header name.                    *)
(***************************************************************************)
\* get_header_single(headers, "connection", default)
GetHeaderSingle(value, default) == IF value = None THEN default ELSE value[1]

\* get_content_length(headers, default): the declared length, as an optional.
GetContentLength(headers, default) ==
    IF headers.cl = None THEN default ELSE headers.cl

(***************************************************************************)
(* ClientResponse._resolve_reader.                                          *)
(***************************************************************************)
Reader(kind, limit) == [kind |-> kind, limit |-> limit]

NoReader == Reader("none", None)

ResolveReaderHttp10(headers) ==
    LET content_length == GetContentLength(headers, None)
    IN  IF content_length = None
        THEN Reader("buffered", None)
        ELSE Reader("limited", content_length)

\* As ResolveReaderHttp11, with the content-length looked at first.
ResolveReaderHttp11_LengthFirst(headers) ==
    LET transfer_encoding ==
            IF headers.te # None THEN Some(Lower(headers.te[1])) ELSE None
        content_length == GetContentLength(headers, None)
    IN  IF content_length # None
        THEN Reader("limited", content_length)
        ELSE IF transfer_encoding = Some(S_chunked)
        THEN Reader("chunked", None)
        ELSE IF transfer_encoding \in {None, Some(S_identity)}
        THEN Reader("buffered", None)
        ELSE Reader("ValueError", None)

ResolveReaderHttp11(headers) ==
    LET transfer_encoding ==
            IF headers.te # None THEN Some(Lower(headers.te[1])) ELSE None
        content_length == GetContentLength(headers, None)
    IN  IF transfer_encoding = Some(S_chunked)
        THEN Reader("chunked", None)
        ELSE IF transfer_encoding \in {None, Some(S_identity)}
                /\ content_length # None
        THEN Reader("limited", content_length)
        ELSE IF transfer_encoding \in {None, Some(S_identity)}
        THEN Reader("buffered", None)
        ELSE Reader("ValueError", None)

ResolveReader(http_version, headers) ==
    IF http_version = HTTP10 THEN ResolveReaderHttp10(headers)
    ELSE IF http_version = HTTP11 THEN ResolveReaderHttp11(headers)
    ELSE Reader("RequestError", None)

ReaderFailed(r) == r.kind \in {"ValueError", "RequestError"}

(***************************************************************************)
(* Body writers of idiokit.http.server.                                     *)
(***************************************************************************)
NoWriter == [kind |-> "none", remaining |-> 0]

LimitedWriter(length) == [kind |-> "limited", remaining |-> length]

ChunkedWriter == [kind |-> "chunked", remaining |-> 0]

Ev(op, n) == [op |-> op, n |-> n]

\* writer.write(data) with len(data) = n: whether it succeeds, what it sends
\* and the writer afterwards.  Empty data is a no-op for both writers.
WriterWrite(w, n) ==
    IF n = 0 THEN [ok |-> TRUE, sent |-> <<>>, writer |-> w]
    ELSE IF w.kind = "chunked"
    THEN [ok |-> TRUE, sent |-> <<Ev("send_chunk", n)>>, writer |-> w]
    ELSE IF n > w.remaining
    THEN [ok |-> FALSE, sent |-> <<>>, writer |-> w]
    ELSE [ok |-> TRUE, sent |-> <<Ev("send_body", n)>>,
          writer |-> [w EXCEPT !.remaining = @ - n]]

\* writer.finish()
WriterFinish(w) ==
    IF w.kind = "chunked"
    THEN [ok |-> TRUE, sent |-> <<Ev("send_last_chunk", 0)>>]
    ELSE [ok |-> w.remaining = 0, sent |-> <<>>]

(***************************************************************************)
(* Client._resolve_headers.                                                 *)
(***************************************************************************)
NoHeaders == [host |-> None, connection |-> None, te |-> None, cl |-> None]

\* As ConnectionAccepted, accepting keep-alive.
ConnectionAccepted_KeepAlive(connection) ==
    Lower(connection) \in {S_close, S_keepalive}

\* line 274
ConnectionAccepted(connection) == Lower(connection) = S_close

\* line 282
TransferEncodingAccepted(transfer_encoding) ==
    Lower(transfer_encoding) \in {S_identity, S_chunked}

\* line 287
HeadAccepted(content_length) == content_length = 0

\* As SelectWriter, with the limit of the bounded writer off by one.
SelectWriter_OffByOne(meth, transfer_encoding, content_length, headers) ==
    IF meth = "HEAD"
    THEN [writer |-> LimitedWriter(0), headers |-> [headers EXCEPT !.cl = Some(0)]]
    ELSE IF transfer_encoding = Some(S_chunked)
    THEN [writer |-> ChunkedWriter, headers |-> headers]
    ELSE [writer  |-> LimitedWriter(content_length + 1),
          headers |-> [headers EXCEPT !.cl = Some(content_length)]]

\* As SelectWriter, with the chunked case tested before the HEAD case.
SelectWriter_ChunkedFirst(meth, transfer_encoding, content_length, headers) ==
    IF transfer_encoding = Some(S_chunked)
    THEN [writer |-> ChunkedWriter, headers |-> headers]
    ELSE IF meth = "HEAD"
    THEN [writer |-> LimitedWriter(0), headers |-> [headers EXCEPT !.cl = Some(0)]]
    ELSE [writer  |-> LimitedWriter(content_length),
          headers |-> [headers EXCEPT !.cl = Some(content_length)]]

\* lines 286-295: the writer and the content-length header it forces.
SelectWriter(meth, transfer_encoding, content_length, headers) ==
    IF meth = "HEAD"
    THEN [writer |-> LimitedWriter(0), headers |-> [headers EXCEPT !.cl = Some(0)]]
    ELSE IF transfer_encoding = Some(S_chunked)
    THEN [writer |-> ChunkedWriter, headers |-> headers]
    ELSE [writer  |-> LimitedWriter(content_length),
          headers |-> [headers EXCEPT !.cl = Some(content_length)]]

Resolved(err, w, h) == [error |-> err, writer |-> w, headers |-> h]

ResolveHeaders(meth, host, hdrs, n) ==
    LET h1 == IF hdrs.host = None THEN [hdrs EXCEPT !.host = Some(host)] ELSE hdrs
        connection == GetHeaderSingle(h1.connection, S_close)
        h2 == [h1 EXCEPT !.connection = Some(connection)]
        content_length == GetContentLength(h2, Some(n))[1]
        transfer_encoding ==
            IF h2.te # None THEN Some(Lower(h2.te[1])) ELSE None
        sel == SelectWriter(meth, transfer_encoding, content_length, h2)
    IN  IF ~ConnectionAccepted(connection)
        THEN Resolved("ValueError: unknown connection value", NoWriter, NoHeaders)
        ELSE IF h2.te # None /\ ~TransferEncodingAccepted(h2.te[1])
        THEN Resolved("ValueError: unknown transfer encoding", NoWriter, NoHeaders)
        ELSE IF meth = "HEAD" /\ ~HeadAccepted(content_length)
        THEN Resolved("ValueError: no content-length != 0 allowed for HEAD requests",
                      NoWriter, NoHeaders)
        ELSE Resolved("none", sel.writer, sel.headers)

(***************************************************************************)
(* Client construction and scheme handlers.                                 *)
(***************************************************************************)
\* As Schemes, with the unix-socket handler registered as well.
Schemes_WithUnix ==
    [s \in {"http", "https", "http+unix"} |->
        IF s = "http" THEN "_HTTPScheme"
        ELSE IF s = "https" THEN "_HTTPSScheme"
        ELSE "_HTTPUnixScheme"]

\* Client.__init__: the scheme table.
Schemes == [http |-> "_HTTPScheme", https |-> "_HTTPSScheme"]

\* self._schemes.get(parsed.scheme, None)
SchemeHandler(s) == IF s \in DOMAIN Schemes THEN Some(Schemes[s]) ELSE None

VerifyTrue == [isstr |-> FALSE, flag |-> TRUE]

VerifyFalse == [isstr |-> FALSE, flag |-> FALSE]

VerifyPath == [isstr |-> TRUE, flag |-> FALSE]

\* As RequireCert, with a CA-bundle path not taken as a request to verify.
RequireCert_PathIgnored(v) ==
    IF v.isstr THEN FALSE
    ELSE IF v.flag = TRUE THEN TRUE
    ELSE FALSE

\* _normalize_verify: require_cert
RequireCert(v) ==
    IF v.isstr THEN TRUE
    ELSE IF v.flag = TRUE THEN TRUE
    ELSE FALSE

(***************************************************************************)
(* Inputs.                                                                  *)
(***************************************************************************)
Methods == {"GET", "HEAD"}

UrlSchemes == {"http", "https", "ftp", "http+unix"}

VerifyModes == {VerifyTrue, VerifyFalse, VerifyPath}

Lengths == 0..MaxLen

RequestHeaderInputs ==
    [host       : {None},
     connection : {None, Some(S_Close), Some(S_keepalive)},
     te         : {None, Some(S_identity), Some(S_Chunked), Some(S_gzip)},
     cl         : {None} \cup {Some(n) : n \in Lengths}]

\* What host_lookup can deliver: the candidates in order, each with whether a
\* connect to it would succeed.
Candidate(i, ok) == [ip |-> i, ok |-> ok]

CandidateSeqs ==
    UNION {{[i \in 1..k |-> Candidate(i, f[i])] : f \in [1..k -> BOOLEAN]} :
           k \in 1..MaxCandidates}

ResponseHeader(te, cl) == [host |-> None, connection |-> None, te |-> te, cl |-> cl]

\* The response headers a peer sends in an exchange.
PeerHeaders ==
    {ResponseHeader(None, None), ResponseHeader(None, Some(MaxLen)),
     ResponseHeader(Some(S_CHUNKED), None), ResponseHeader(Some(S_gzip), Some(MaxLen))}

S_11 == S_HTTP \o <<"1", ".", "1">>

S_10 == S_HTTP \o <<"1", ".", "0">>

S_20 == S_HTTP \o <<"2", ".", "0">>

S_ICY == <<"I", "C", "Y">>

S_200 == <<"2", "0", "0">>

S_OK == <<"O", "K">>

\* What the peer can send where the status line is expected, in an exchange.
PeerStreams ==
    {<<>>,
     S_11 \o <<SP>> \o S_200 \o <<SP>> \o S_OK \o <<CR, LF>>,
     S_10 \o <<SP>> \o S_200 \o <<SP>> \o S_OK \o <<LF>>,
     S_20 \o <<SP>> \o S_200 \o <<SP>> \o S_OK \o <<CR, LF>>,
     S_ICY \o <<SP>> \o S_200 \o <<SP>> \o S_OK \o <<CR, LF>>,
     S_11 \o <<SP>> \o <<"2", "0">> \o <<SP>> \o S_OK \o <<CR, LF>>}

(***************************************************************************)
(* The configuration files, loaders and clock before anything used them.    *)
(***************************************************************************)
\* The paths hosts() and resolv_conf() are called with.
Paths == {"/etc/hosts", "/etc/resolv.conf"}

NoQuery ==
    [op |-> "none", arg |-> <<>>, ok |-> TRUE, answer |-> {}, network |-> FALSE]

NoConf ==
    /\ files = [p \in Paths |-> None]
    /\ loaders = <<>>
    /\ loaded = <<>>
    /\ query = NoQuery

NoTime ==
    /\ elapsed = 0
    /\ origin = 0
    /\ previous = 0
    /\ ticks = <<>>

(***************************************************************************)
(* The exchange.                                                            *)
(***************************************************************************)
NoCall == [op |-> "none", n |-> 0, before |-> 0, ok |-> TRUE]

Call(op, n, before, ok) == [op |-> op, n |-> n, before |-> before, ok |-> ok]

\* Body bytes sent so far.
RECURSIVE BodyBytes(_)
BodyBytes(log) ==
    IF log = <<>> THEN 0
    ELSE BodyBytes(Tail(log))
         + (IF Head(log).op \in {"send_body", "send_chunk"} THEN Head(log).n ELSE 0)

Count(log, op) == Cardinality({i \in DOMAIN log : log[i].op = op})

Init ==
    /\ pc = "idle"
    /\ verify \in VerifyModes
    /\ method = "GET"
    /\ scheme = "http"
    /\ reqHeaders = NoHeaders
    /\ dataLen = 0
    /\ lookup = <<>>
    /\ peerCert = FALSE
    /\ transport = "none"
    /\ handle = FALSE
    /\ writer = NoWriter
    /\ outHeaders = NoHeaders
    /\ net = <<>>
    /\ last = NoCall
    /\ calls = 0
    /\ line = <<>>
    /\ status = NoStatus
    /\ respHeaders = NoHeaders
    /\ reader = NoReader
    /\ error = "none"
    /\ NoConf /\ NoTime

Fail(e) == pc' = "failed" /\ error' = e

\* Client.request, lines 250-257: up to the call of scheme_handler.connect.
Request ==
    /\ pc = "idle"
    /\ \E m \in Methods, s \in UrlSchemes, h \in RequestHeaderInputs, n \in Lengths :
          /\ method' = m
          /\ scheme' = s
          /\ reqHeaders' = h
          /\ dataLen' = n
          /\ IF SchemeHandler(s) = None
             THEN Fail("ValueError: unknown URI scheme")
             ELSE pc' = "lookup" /\ error' = error
    /\ UNCHANGED <<verify, lookup, peerCert, transport, handle, writer, outHeaders,
                   net, last, calls, line, status, respHeaders, reader>>
    /\ UNCHANGED <<confVars, timeVars>>

\* host_lookup(host, client.resolver): the candidates, or not found.
HostLookup ==
    /\ pc = "lookup"
    /\ \/ \E c \in CandidateSeqs :
             lookup' = c /\ pc' = "connect" /\ error' = error
       \/ lookup' = lookup /\ Fail("ResponseError")
    /\ UNCHANGED <<method, scheme, verify, reqHeaders, dataLen, peerCert, transport,
                   handle, writer, outHeaders, net, last, calls, line, status,
                   respHeaders, reader>>
    /\ UNCHANGED <<confVars, timeVars>>

\* _HTTPScheme.connect, _connect: takes one candidate from host_lookup and
\* connects to it; the pipe ends with the socket or with connect's exception.
Connect ==
    /\ pc = "connect"
    /\ LET c == Head(lookup)
       IN  IF c.ok
           THEN /\ transport' = "plain"
                /\ net' = Append(net, Ev("connect", c.ip))
                /\ lookup' = <<>>
                /\ handle' = (Schemes[scheme] = "_HTTPScheme")
                /\ pc' = IF Schemes[scheme] = "_HTTPSScheme" THEN "wrap" ELSE "resolve"
                /\ error' = error
           ELSE /\ net' = Append(net, Ev("connect_failed", c.ip))
                /\ lookup' = Tail(lookup)
                /\ Fail("socket.error")
                /\ UNCHANGED <<transport, handle>>
    /\ UNCHANGED <<method, scheme, verify, reqHeaders, dataLen, peerCert, writer,
                   outHeaders, last, calls, line, status, respHeaders, reader>>
    /\ UNCHANGED <<confVars, timeVars>>

\* _HTTPSScheme.connect, lines 191-198: ssl.wrap_socket, then line 199.
WrapSocket ==
    /\ pc = "wrap"
    /\ \/ \E matches \in BOOLEAN :
             /\ peerCert' = matches
             /\ transport' = "tls"
             /\ net' = Append(net, Ev("wrap_socket", 0))
             /\ IF RequireCert(verify)
                THEN pc' = "verify" /\ handle' = handle
                ELSE pc' = "resolve" /\ handle' = TRUE
             /\ error' = error
       \/ /\ Fail("SSLError")
          /\ UNCHANGED <<peerCert, transport, net, handle>>
    /\ UNCHANGED <<method, scheme, verify, reqHeaders, dataLen, lookup, writer,
                   outHeaders, last, calls, line, status, respHeaders, reader>>
    /\ UNCHANGED <<confVars, timeVars>>

\* _HTTPSScheme.connect, lines 200-202: getpeercert and match_hostname.
VerifyPeer ==
    /\ pc = "verify"
    /\ net' = Append(net, Ev("getpeercert", 0))
    /\ IF peerCert
       THEN pc' = "resolve" /\ handle' = TRUE /\ error' = error
       ELSE Fail("CertificateError") /\ handle' = handle
    /\ UNCHANGED <<method, scheme, verify, reqHeaders, dataLen, lookup, peerCert,
                   transport, writer, outHeaders, last, calls, line, status,
                   respHeaders, reader>>
    /\ UNCHANGED <<confVars, timeVars>>

\* As ResolveHeadersStep, with lines 258 and 261 exchanged: the request line is
\* sent before the headers are validated.
ResolveHeadersStep_AfterRequestLine ==
    /\ pc = "resolve"
    /\ net' = Append(net, Ev("send_request_line", 0))
    /\ LET r == ResolveHeaders(method, S_host, reqHeaders, dataLen)
       IN  IF r.error # "none"
           THEN Fail(r.error) /\ UNCHANGED <<writer, outHeaders>>
           ELSE /\ writer' = r.writer
                /\ outHeaders' = r.headers
                /\ pc' = "send_headers"
                /\ error' = error
    /\ UNCHANGED <<method, scheme, verify, reqHeaders, dataLen, lookup, peerCert,
                   transport, handle, last, calls, line, status, respHeaders,
                   reader>>
    /\ UNCHANGED <<confVars, timeVars>>

\* Client.request, line 258.
ResolveHeadersStep ==
    /\ pc = "resolve"
    /\ LET r == ResolveHeaders(method, S_host, reqHeaders, dataLen)
       IN  IF r.error # "none"
           THEN Fail(r.error) /\ UNCHANGED <<writer, outHeaders>>
           ELSE /\ writer' = r.writer
                /\ outHeaders' = r.headers
                /\ pc' = "send_line"
                /\ error' = error
    /\ UNCHANGED <<method, scheme, verify, reqHeaders, dataLen, lookup, peerCert,
                   transport, handle, net, last, calls, line, status, respHeaders,
                   reader>>
    /\ UNCHANGED <<confVars, timeVars>>

\* Client.request, lines 260-261.
WriteRequestLine ==
    /\ pc = "send_line"
    /\ net' = Append(net, Ev("send_request_line", 0))
    /\ pc' = "send_headers"
    /\ UNCHANGED <<method, scheme, verify, reqHeaders, dataLen, lookup, peerCert,
                   transport, handle, writer, outHeaders, last, calls, line, status,
                   respHeaders, reader, error>>
    /\ UNCHANGED <<confVars, timeVars>>

\* Client.request, line 262.
WriteHeaders ==
    /\ pc = "send_headers"
    /\ net' = Append(net, Ev("send_headers", 0))
    /\ pc' = "send_data"
    /\ UNCHANGED <<method, scheme, verify, reqHeaders, dataLen, lookup, peerCert,
                   transport, handle, writer, outHeaders, last, calls, line, status,
                   respHeaders, reader, error>>
    /\ UNCHANGED <<confVars, timeVars>>

\* As InitialWrite, with the writer finished after the write of data.
InitialWrite_Finishing ==
    /\ pc = "send_data"
    /\ LET w == WriterWrite(writer, dataLen)
       IN  /\ last' = Call("write", dataLen, BodyBytes(net), w.ok)
           /\ net' = net \o w.sent \o WriterFinish(w.writer).sent
           /\ writer' = w.writer
           /\ IF w.ok THEN pc' = "open" /\ error' = error
                      ELSE Fail("ValueError: write")
    /\ UNCHANGED <<method, scheme, verify, reqHeaders, dataLen, lookup, peerCert,
                   transport, handle, outHeaders, calls, line, status, respHeaders,
                   reader>>
    /\ UNCHANGED <<confVars, timeVars>>

\* Client.request, lines 264-266: the write of data, then the ClientRequest.
InitialWrite ==
    /\ pc = "send_data"
    /\ LET w == WriterWrite(writer, dataLen)
       IN  /\ last' = Call("write", dataLen, BodyBytes(net), w.ok)
           /\ net' = net \o w.sent
           /\ writer' = w.writer
           /\ IF w.ok THEN pc' = "open" /\ error' = error
                      ELSE Fail("ValueError: write")
    /\ UNCHANGED <<method, scheme, verify, reqHeaders, dataLen, lookup, peerCert,
                   transport, handle, outHeaders, calls, line, status, respHeaders,
                   reader>>
    /\ UNCHANGED <<confVars, timeVars>>

\* ClientRequest.write(data): a failure is raised to the caller, who goes on.
Write ==
    /\ pc = "open"
    /\ calls < MaxCalls
    /\ \E n \in Lengths :
          LET w == WriterWrite(writer, n)
          IN  /\ last' = Call("write", n, BodyBytes(net), w.ok)
              /\ net' = net \o w.sent
              /\ writer' = w.writer
    /\ calls' = calls + 1
    /\ UNCHANGED <<pc, method, scheme, verify, reqHeaders, dataLen, lookup, peerCert,
                   transport, handle, outHeaders, line, status, respHeaders, reader,
                   error>>
    /\ UNCHANGED <<confVars, timeVars>>

\* As FinishWriter, without line 123: the status line is read at once.
FinishWriter_Skipped ==
    /\ pc = "open"
    /\ pc' = "status"
    /\ UNCHANGED <<method, scheme, verify, reqHeaders, dataLen, lookup, peerCert,
                   transport, handle, writer, outHeaders, net, last, calls, line,
                   status, respHeaders, reader, error>>
    /\ UNCHANGED <<confVars, timeVars>>

\* ClientRequest.finish, line 123: self._writer.finish().
FinishWriter ==
    /\ pc = "open"
    /\ LET f == WriterFinish(writer)
       IN  /\ last' = Call("finish", 0, BodyBytes(net), f.ok)
           /\ net' = net \o f.sent
           /\ pc' = IF f.ok THEN "status" ELSE "open"
    /\ UNCHANGED <<method, scheme, verify, reqHeaders, dataLen, lookup, peerCert,
                   transport, handle, writer, outHeaders, calls, line, status,
                   respHeaders, reader, error>>
    /\ UNCHANGED <<confVars, timeVars>>

\* ClientRequest.finish, line 124: read_status_line(self._buffered), for a peer
\* that sends one of streams.
ReadStatusLineFrom(streams) ==
    /\ pc = "status"
    /\ \E stream \in streams :
          LET l == ReadLine(stream)
              st == ParseStatusLine(l)
          IN  /\ line' = l
              /\ status' = st
              /\ IF st.kind = "ok" THEN pc' = "headers" /\ error' = error
                                   ELSE Fail(st.kind)
    /\ net' = Append(net, Ev("read_status_line", 0))
    /\ UNCHANGED <<method, scheme, verify, reqHeaders, dataLen, lookup, peerCert,
                   transport, handle, writer, outHeaders, last, calls, respHeaders,
                   reader>>
    /\ UNCHANGED <<confVars, timeVars>>

ReadStatusLine == ReadStatusLineFrom(PeerStreams)

\* ClientRequest.finish, line 125: read_headers(self._buffered), for a peer that
\* sends one of inputs.
ReadHeadersFrom(inputs) ==
    /\ pc = "headers"
    /\ \E h \in inputs : respHeaders' = h
    /\ net' = Append(net, Ev("read_headers", 0))
    /\ pc' = "response"
    /\ UNCHANGED <<method, scheme, verify, reqHeaders, dataLen, lookup, peerCert,
                   transport, handle, writer, outHeaders, last, calls, line, status,
                   reader, error>>
    /\ UNCHANGED <<confVars, timeVars>>

ReadHeaders == ReadHeadersFrom(PeerHeaders)

\* ClientRequest.finish, line 126: ClientResponse(...), which resolves the reader.
MakeResponse ==
    /\ pc = "response"
    /\ LET r == ResolveReader(status.version, respHeaders)
       IN  /\ reader' = r
           /\ IF ReaderFailed(r) THEN Fail(r.kind)
                                 ELSE pc' = "body" /\ error' = error
    /\ UNCHANGED <<method, scheme, verify, reqHeaders, dataLen, lookup, peerCert,
                   transport, handle, writer, outHeaders, net, last, calls, line,
                   status, respHeaders>>
    /\ UNCHANGED <<confVars, timeVars>>

\* ClientResponse.read(amount)
Read ==
    /\ pc = "body"
    /\ calls < MaxCalls
    /\ net' = Append(net, Ev("read_body", 0))
    /\ calls' = calls + 1
    /\ UNCHANGED <<pc, method, scheme, verify, reqHeaders, dataLen, lookup, peerCert,
                   transport, handle, writer, outHeaders, last, line, status,
                   respHeaders, reader, error>>
    /\ UNCHANGED <<confVars, timeVars>>

\* The positions at which request() or finish() is suspended in a yield.
SuspensionPoints ==
    {"lookup", "connect", "wrap", "verify", "send_line", "send_headers", "send_data",
     "status", "headers"}

\* The caller cancels the exchange: the stream suspended in request() or
\* finish() ends with the cancellation, and no statement of it runs after.
Cancel ==
    /\ pc \in SuspensionPoints
    /\ Fail("Canceled")
    /\ UNCHANGED <<method, scheme, verify, reqHeaders, dataLen, lookup, peerCert,
                   transport, handle, writer, outHeaders, net, last, calls, line,
                   status, respHeaders, reader>>
    /\ UNCHANGED <<confVars, timeVars>>

Next ==
    \/ Request
    \/ HostLookup
    \/ Connect
    \/ WrapSocket
    \/ VerifyPeer
    \/ ResolveHeadersStep
    \/ WriteRequestLine
    \/ WriteHeaders
    \/ InitialWrite
    \/ Write
    \/ FinishWriter
    \/ ReadStatusLine
    \/ ReadHeaders
    \/ MakeResponse
    \/ Read
    \/ Cancel

Spec == Init /\ [][Next]_vars

(***************************************************************************)
(* read_status_line on its own: the peer's bytes are drawn from              *)
(* StatusStreams, well-formed and malformed in every part of the line.       *)
(***************************************************************************)
VersionTokens ==
    {<<>>, S_11, S_10, S_20, S_ICY, S_HTTP \o <<"1">>, S_HTTP \o <<"1", ".", "x">>}

Separators == {<<>>, <<SP>>, <<SP, SP>>}

CodeTokens ==
    {<<>>, S_200, <<"4", "0", "4">>, <<"2", "0">>, <<"2", "0", "0", "0">>,
     <<"2", "x", "0">>}

ReasonTokens == {<<>>, S_OK, <<"N", SP, "F">>, <<"O", CR, "K">>}

Terminators == {<<>>, <<LF>>, <<CR, LF>>, <<CR>>, <<LF, LF>>, <<CR, CR, LF>>}

StatusStreams ==
    {v \o s1 \o c \o s2 \o r \o t :
        v \in VersionTokens, s1 \in Separators, c \in CodeTokens,
        s2 \in Separators, r \in ReasonTokens, t \in Terminators}

InitStatusLine ==
    /\ pc = "status"
    /\ verify = VerifyTrue
    /\ method = "GET"
    /\ scheme = "http"
    /\ reqHeaders = NoHeaders
    /\ dataLen = 0
    /\ lookup = <<>>
    /\ peerCert = FALSE
    /\ transport = "plain"
    /\ handle = TRUE
    /\ writer = LimitedWriter(0)
    /\ outHeaders = NoHeaders
    /\ net = <<>>
    /\ last = NoCall
    /\ calls = 0
    /\ line = <<>>
    /\ status = NoStatus
    /\ respHeaders = NoHeaders
    /\ reader = NoReader
    /\ error = "none"
    /\ NoConf /\ NoTime

ReadAnyStatusLine == ReadStatusLineFrom(StatusStreams)

NextStatusLine == ReadAnyStatusLine

SpecStatusLine == InitStatusLine /\ [][NextStatusLine]_vars

(***************************************************************************)
(* The choice of the body reader on its own: a response of any version with *)
(* any combination of transfer-encoding and content-length.                 *)
(***************************************************************************)
ResponseVersions == {HTTP10, HTTP11, [major |-> 2, minor |-> 0], [major |-> 0, minor |-> 9]}

ResponseHeaderInputs ==
    {ResponseHeader(te, cl) :
        te \in {None, Some(S_chunked), Some(S_Chunked), Some(S_CHUNKED),
                Some(S_identity), Some(S_Identity), Some(S_gzip)},
        cl \in {None} \cup {Some(n) : n \in Lengths}}

InitReader ==
    /\ pc = "headers"
    /\ \E v \in ResponseVersions :
          status = [kind |-> "ok", version |-> v, code |-> 200, reason |-> S_OK]
    /\ verify = VerifyTrue
    /\ method = "GET"
    /\ scheme = "http"
    /\ reqHeaders = NoHeaders
    /\ dataLen = 0
    /\ lookup = <<>>
    /\ peerCert = FALSE
    /\ transport = "plain"
    /\ handle = TRUE
    /\ writer = LimitedWriter(0)
    /\ outHeaders = NoHeaders
    /\ net = <<>>
    /\ last = NoCall
    /\ calls = 0
    /\ line = <<>>
    /\ respHeaders = NoHeaders
    /\ reader = NoReader
    /\ error = "none"
    /\ NoConf /\ NoTime

ReadAnyHeaders == ReadHeadersFrom(ResponseHeaderInputs)

NextReader ==
    \/ ReadAnyHeaders
    \/ MakeResponse
    \/ Read

SpecReader == InitReader /\ [][NextReader]_vars

(***************************************************************************)
(* idiokit.dns._conf: the hosts file and resolv.conf parsers.               *)
(***************************************************************************)
TAB == "\t"

Whitespace == {SP, TAB, CR, LF}

\* str.strip()
Strip(s) ==
    LET kept == {i \in DOMAIN s : s[i] \notin Whitespace}
    IN  IF kept = {} THEN <<>>
        ELSE SubSeq(s, CHOOSE i \in kept : \A j \in kept : i <= j,
                       CHOOSE i \in kept : \A j \in kept : j <= i)

\* s[from:], without the whitespace it starts with.
RECURSIVE LStripFrom(_, _)
LStripFrom(s, from) ==
    IF from > Len(s) THEN <<>>
    ELSE IF s[from] \in Whitespace THEN LStripFrom(s, from + 1)
    ELSE SubSeq(s, from, Len(s))

\* str.split(): the maximal runs of characters that are not whitespace.
RECURSIVE Split(_)
Split(s) ==
    LET rest == LStripFrom(s, 1)
        end == FirstIn(rest, Whitespace, 1)
    IN  IF rest = <<>> THEN <<>>
        ELSE <<SubSeq(rest, 1, end - 1)>> \o Split(LStripFrom(rest, end))

\* str.split(None, 1): the first run and, if there is one, all that follows
\* the whitespace after it.
Split1(s) ==
    LET rest == LStripFrom(s, 1)
        end == FirstIn(rest, Whitespace, 1)
        tail == LStripFrom(rest, end)
    IN  IF rest = <<>> THEN <<>>
        ELSE IF tail = <<>> THEN <<SubSeq(rest, 1, end - 1)>>
        ELSE <<SubSeq(rest, 1, end - 1), tail>>

IP_v4 == <<"1", ".", "2", ".", "3", ".", "4">>

IP_v6 == <<":", ":", "c">>

IP_V6 == <<":", ":", "C">>

IP_0v6 == <<"0", ":", ":", "c">>

IP_bad == <<"x">>

\* _iputils.parse_ip: the family and the canonical text of an IP literal, or
\* None where parse_ip raises ValueError.
ParseIp(s) ==
    LET lower == Lower(s)
        short == IF lower # <<>> /\ Head(lower) = "0" THEN Tail(lower) ELSE lower
    IN  IF s = IP_v4 THEN Some([family |-> "AF_INET", ip |-> IP_v4])
        ELSE IF Len(short) = Len(IP_v6) /\ SubSeq(short, 1, 2) = SubSeq(IP_v6, 1, 2)
                /\ short[Len(short)] \in {"c", "d"}
        THEN Some([family |-> "AF_INET6", ip |-> short])
        ELSE None

DnsPort == 53

\* parse_server
ParseServer(server) ==
    LET parsed == ParseIp(server)
    IN  IF parsed = None THEN None
        ELSE Some([family |-> parsed[1].family, ip |-> parsed[1].ip, port |-> DnsPort])

\* read_resolv_conf, one line: nothing or one (key, value).
ReadResolvConfLine(l) ==
    LET stripped == Strip(l)
        pieces == Split1(stripped)
    IN  IF stripped = <<>> \/ Head(stripped) \in {"#", ";"} THEN <<>>
        ELSE IF Len(pieces) < 2 THEN <<>>
        ELSE <<[key |-> Lower(pieces[1]), value |-> pieces[2]]>>

RECURSIVE ReadResolvConf(_)
ReadResolvConf(line_iterator) ==
    IF line_iterator = <<>> THEN <<>>
    ELSE ReadResolvConfLine(Head(line_iterator)) \o ReadResolvConf(Tail(line_iterator))

\* As ReadHostsLine, yielding the first token as it is written instead of the
\* canonical text parse_ip returns.
ReadHostsLine_Literal(l) ==
    LET comment_start == FirstIn(l, {"#"}, 1)
        uncommented == IF comment_start <= Len(l) THEN SubSeq(l, 1, comment_start - 1)
                                                  ELSE l
        stripped == Strip(uncommented)
        pieces == Split(stripped)
    IN  IF stripped = <<>> THEN <<>>
        ELSE IF Len(pieces) < 2 THEN <<>>
        ELSE IF ParseIp(pieces[1]) = None THEN <<>>
        ELSE <<[ip |-> pieces[1],
                names |-> {Lower(pieces[i]) : i \in 2..Len(pieces)}]>>

\* read_hosts, one line: nothing or one (ip, names).
ReadHostsLine(l) ==
    LET comment_start == FirstIn(l, {"#"}, 1)
        uncommented == IF comment_start <= Len(l) THEN SubSeq(l, 1, comment_start - 1)
                                                  ELSE l
        stripped == Strip(uncommented)
        pieces == Split(stripped)
    IN  IF stripped = <<>> THEN <<>>
        ELSE IF Len(pieces) < 2 THEN <<>>
        ELSE IF ParseIp(pieces[1]) = None THEN <<>>
        ELSE <<[ip |-> ParseIp(pieces[1])[1].ip,
                names |-> {Lower(pieces[i]) : i \in 2..Len(pieces)}]>>

\* As ReadHosts, ending at the first line that gives nothing.
RECURSIVE ReadHosts_StopsAtBadLine(_)
ReadHosts_StopsAtBadLine(line_iterator) ==
    IF line_iterator = <<>> \/ ReadHostsLine(Head(line_iterator)) = <<>> THEN <<>>
    ELSE ReadHostsLine(Head(line_iterator))
         \o ReadHosts_StopsAtBadLine(Tail(line_iterator))

RECURSIVE ReadHosts(_)
ReadHosts(line_iterator) ==
    IF line_iterator = <<>> THEN <<>>
    ELSE ReadHostsLine(Head(line_iterator)) \o ReadHosts(Tail(line_iterator))

\* As Uniques, keeping each value at its last occurrence.
RECURSIVE Uniques_KeepLast(_)
Uniques_KeepLast(values) ==
    IF values = <<>> THEN <<>>
    ELSE LET rest == Uniques_KeepLast(Tail(values))
         IN  IF \E i \in DOMAIN rest : rest[i] = Head(values) THEN rest
             ELSE <<Head(values)>> \o rest

\* uniques: the values in order, each at its first occurrence only.
RECURSIVE Uniques(_)
Uniques(values) ==
    IF values = <<>> THEN <<>>
    ELSE LET init == Uniques(SubSeq(values, 1, Len(values) - 1))
             value == values[Len(values)]
         IN  IF \E i \in DOMAIN init : init[i] = value THEN init
             ELSE Append(init, value)

\* Hosts.from_lines, lines 78-80: ips.setdefault(ip, set()).update(names).
RECURSIVE CollectIps(_, _)
CollectIps(entries, ips) ==
    IF entries = <<>> THEN ips
    ELSE LET e == Head(entries)
         IN  CollectIps(Tail(entries),
                        [i \in DOMAIN ips \cup {e.ip} |->
                            (IF i \in DOMAIN ips THEN ips[i] ELSE {})
                            \cup (IF i = e.ip THEN e.names ELSE {})])

\* Hosts.__init__
HostsNew(ips) ==
    [type  |-> "Hosts",
     ips   |-> ips,
     names |-> [n \in UNION {ips[i] : i \in DOMAIN ips} |->
                   {i \in DOMAIN ips : n \in ips[i]}]]

\* Hosts.from_lines
HostsFromLines(line_iterator) ==
    HostsNew(CollectIps(ReadHosts(line_iterator), [i \in {} |-> {}]))

Answer(ok, answer) == [ok |-> ok, answer |-> answer]

\* Hosts.ip_to_names: the names, or parse_ip's ValueError.
IpToNames(h, ip) ==
    LET parsed == ParseIp(ip)
    IN  IF parsed = None THEN Answer(FALSE, {})
        ELSE IF parsed[1].ip \in DOMAIN h.ips THEN Answer(TRUE, h.ips[parsed[1].ip])
        ELSE Answer(TRUE, {})

\* As NameToIps, without name.lower().
NameToIps_CaseSensitive(h, name) ==
    IF name \in DOMAIN h.names THEN Answer(TRUE, h.names[name])
    ELSE Answer(TRUE, {})

\* Hosts.name_to_ips
NameToIps(h, name) ==
    IF Lower(name) \in DOMAIN h.names THEN Answer(TRUE, h.names[Lower(name)])
    ELSE Answer(TRUE, {})

S_nameserver == <<"n", "a", "m", "e", "s", "e", "r", "v", "e", "r">>

\* ResolvConf.from_lines, lines 116-126.
RECURSIVE CollectServers(_)
CollectServers(directives) ==
    IF directives = <<>> THEN <<>>
    ELSE LET d == Head(directives)
             parsed == ParseServer(d.value)
         IN  (IF d.key # S_nameserver \/ parsed = None THEN <<>>
              ELSE <<[ip |-> parsed[1].ip, port |-> parsed[1].port]>>)
             \o CollectServers(Tail(directives))

\* ResolvConf.__init__
ResolvConfNew(servers) == [type |-> "ResolvConf", servers |-> Uniques(servers)]

\* ResolvConf.from_lines
ResolvConfFromLines(line_iterator) ==
    ResolvConfNew(CollectServers(ReadResolvConf(line_iterator)))

\* self._type.from_lines
FromLines(type, line_iterator) ==
    IF type = "Hosts" THEN HostsFromLines(line_iterator)
    ELSE ResolvConfFromLines(line_iterator)
(***************************************************************************)
(* idiokit.dns._conf: _Loader, hosts() and resolv_conf().                   *)
(***************************************************************************)
MaxLines == 3
MaxLoaders == 2
MaxLoads == 2

\* The lines of a hosts file, each with the canonical IP and the lower-cased
\* names it gives (no IP: the line gives nothing).
HostsLineInputs ==
    {[text |-> IP_v4 \o <<SP, "h", LF>>,
      ip |-> Some(IP_v4), names |-> {<<"h">>}],
     [text |-> IP_V6 \o <<SP, "H", SP, "d", LF>>,
      ip |-> Some(IP_v6), names |-> {<<"h">>, <<"d">>}],
     [text |-> IP_0v6 \o <<"\t", "d", CR, LF>>,
      ip |-> Some(IP_v6), names |-> {<<"d">>}],
     [text |-> IP_v6 \o <<SP, "h", SP, "#", SP, "d", LF>>,
      ip |-> Some(IP_v6), names |-> {<<"h">>}],
     [text |-> <<"#", SP>> \o IP_v4 \o <<SP, "d", LF>>,
      ip |-> None, names |-> {}],
     [text |-> <<LF>>,
      ip |-> None, names |-> {}],
     [text |-> IP_v4 \o <<LF>>,
      ip |-> None, names |-> {}],
     [text |-> IP_bad \o <<SP, "h", LF>>,
      ip |-> None, names |-> {}],
     [text |-> <<SP>> \o IP_v4 \o <<SP, SP, "d", SP, "D", LF>>,
      ip |-> Some(IP_v4), names |-> {<<"d">>}]}

\* The lines of a resolv.conf, each with the canonical IP of the name server
\* it names (None: the line names no server).
ResolvLineInputs ==
    {[text |-> S_nameserver \o <<SP>> \o IP_v4 \o <<LF>>,
      ip |-> Some(IP_v4)],
     [text |-> <<"N">> \o Tail(S_nameserver) \o <<SP>> \o IP_V6 \o <<LF>>,
      ip |-> Some(IP_v6)],
     [text |-> <<SP>> \o S_nameserver \o <<"\t">> \o IP_0v6 \o <<SP, CR, LF>>,
      ip |-> Some(IP_v6)],
     [text |-> S_nameserver \o <<SP>> \o IP_bad \o <<LF>>,
      ip |-> None],
     [text |-> S_nameserver \o <<SP>> \o IP_v4 \o <<SP, "#", SP, "d", LF>>,
      ip |-> None],
     [text |-> S_nameserver \o <<LF>>,
      ip |-> None],
     [text |-> <<"s", "e", "a", "r", "c", "h", SP>> \o IP_v4 \o <<LF>>,
      ip |-> None],
     [text |-> <<";", SP>> \o S_nameserver \o <<SP>> \o IP_v4 \o <<LF>>,
      ip |-> None],
     [text |-> <<"#">> \o S_nameserver \o <<SP>> \o IP_v6 \o <<LF>>,
      ip |-> None],
     [text |-> <<LF>>,
      ip |-> None]}

\* The files of up to MaxLines lines whose lines are the texts of inputs.
FilesOf(inputs) ==
    UNION {[1..k -> {r.text : r \in inputs}] : k \in 0..MaxLines}

Loader(type, path, instance) == [type |-> type, path |-> path, instance |-> instance]

NoExchange ==
    /\ pc = "idle"
    /\ verify = VerifyTrue
    /\ method = "GET"
    /\ scheme = "http"
    /\ reqHeaders = NoHeaders
    /\ dataLen = 0
    /\ lookup = <<>>
    /\ peerCert = FALSE
    /\ transport = "none"
    /\ handle = FALSE
    /\ writer = NoWriter
    /\ outHeaders = NoHeaders
    /\ net = <<>>
    /\ last = NoCall
    /\ calls = 0
    /\ line = <<>>
    /\ status = NoStatus
    /\ respHeaders = NoHeaders
    /\ reader = NoReader
    /\ error = "none"

\* hosts(path): a new _Loader for Hosts.
HostsCall(path) ==
    /\ Len(loaders) < MaxLoaders
    /\ loaders' = Append(loaders, Loader("Hosts", path, None))
    /\ UNCHANGED <<files, loaded, query>>
    /\ UNCHANGED <<exchangeVars, timeVars>>

\* resolv_conf(path): a new _Loader for ResolvConf.
ResolvConfCall(path) ==
    /\ Len(loaders) < MaxLoaders
    /\ loaders' = Append(loaders, Loader("ResolvConf", path, None))
    /\ UNCHANGED <<files, loaded, query>>
    /\ UNCHANGED <<exchangeVars, timeVars>>

\* As Load, reading the file again when force_reload is true.
Load_Reloading(i, force_reload) ==
    /\ Len(loaded) < MaxLoads
    /\ LET l == loaders[i]
           opens == l.instance = None \/ force_reload
           opened == files[l.path]
           instance == IF ~opens THEN l.instance[1]
                       ELSE IF opened = None THEN FromLines(l.type, <<>>)
                       ELSE FromLines(l.type, opened[1])
       IN  /\ loaders' = [loaders EXCEPT ![i].instance = Some(instance)]
           /\ loaded' = Append(loaded, [loader |-> i, force_reload |-> force_reload,
                                        opens |-> opens, result |-> instance])
    /\ UNCHANGED <<files, query>>
    /\ UNCHANGED <<exchangeVars, timeVars>>

\* _Loader.load(force_reload) of the i-th loader.
Load(i, force_reload) ==
    /\ Len(loaded) < MaxLoads
    /\ LET l == loaders[i]
           opens == l.instance = None
           opened == files[l.path]
           instance == IF ~opens THEN l.instance[1]
                       ELSE IF opened = None THEN FromLines(l.type, <<>>)
                       ELSE FromLines(l.type, opened[1])
       IN  /\ loaders' = [loaders EXCEPT ![i].instance = Some(instance)]
           /\ loaded' = Append(loaded, [loader |-> i, force_reload |-> force_reload,
                                        opens |-> opens, result |-> instance])
    /\ UNCHANGED <<files, query>>
    /\ UNCHANGED <<exchangeVars, timeVars>>

\* Some other process rewrites, creates or removes the file at path.
WriteFile(path, contents) ==
    /\ \E c \in contents : c # files[path] /\ files' = [files EXCEPT ![path] = c]
    /\ UNCHANGED <<loaders, loaded, query>>
    /\ UNCHANGED <<exchangeVars, timeVars>>

(***************************************************************************)
(* Parsing on its own: one loader of each kind for a file of any lines.     *)
(***************************************************************************)
InitConf ==
    /\ NoExchange
    /\ NoTime
    /\ \/ \E f \in {None} \cup {Some(c) : c \in FilesOf(HostsLineInputs)} :
             /\ files = [p \in Paths |-> IF p = "/etc/hosts" THEN f ELSE None]
             /\ loaders = <<Loader("Hosts", "/etc/hosts", None)>>
       \/ \E f \in {None} \cup {Some(c) : c \in FilesOf(ResolvLineInputs)} :
             /\ files = [p \in Paths |-> IF p = "/etc/resolv.conf" THEN f ELSE None]
             /\ loaders = <<Loader("ResolvConf", "/etc/resolv.conf", None)>>
    /\ loaded = <<>>
    /\ query = NoQuery

LoadAny == \E i \in DOMAIN loaders, force_reload \in BOOLEAN : Load(i, force_reload)

NextConf == LoadAny

SpecConf == InitConf /\ [][NextConf]_vars

(***************************************************************************)
(* The loaders of one process, while the files change under them.           *)
(***************************************************************************)
LoaderContents ==
    {None,
     Some(<<IP_v4 \o <<SP, "h", LF>>>>),
     Some(<<S_nameserver \o <<SP>> \o IP_v4 \o <<LF>>, IP_bad \o <<LF>>>>)}

InitLoader == NoExchange /\ NoTime /\ NoConf

HostsAny == \E p \in Paths : HostsCall(p)

ResolvConfAny == \E p \in Paths : ResolvConfCall(p)

WriteAny == \E p \in Paths : WriteFile(p, LoaderContents)

NextLoader ==
    \/ HostsAny
    \/ ResolvConfAny
    \/ LoadAny
    \/ WriteAny

SpecLoader == InitLoader /\ [][NextLoader]_vars

(***************************************************************************)
(* Host lookup (idiokit.dns.host_lookup), as the tests of                   *)
(* test_dns_hostlookup.py use it: a HostLookup made for one hosts file.     *)
(***************************************************************************)
Lookup(host, ok, candidates, network) ==
    [op |-> "host_lookup", arg |-> host, ok |-> ok, answer |-> candidates,
     network |-> network]

\* HostLookup.host_lookup(host): an IP literal is its own candidate; a name is
\* looked up in the loaded hosts table, and asked of the name servers only
\* when the table has no entry; the name servers answer or do not.
LookupHost(host) ==
    IF ParseIp(host) # None
    THEN /\ query' = Lookup(host, TRUE, {ParseIp(host)[1]}, FALSE)
         /\ UNCHANGED <<files, loaders, loaded>>
         /\ UNCHANGED <<exchangeVars, timeVars>>
    ELSE /\ Len(loaded) < MaxLoads
         /\ LET l == loaders[1]
                opens == l.instance = None
                instance == IF ~opens THEN l.instance[1]
                            ELSE FromLines(l.type, IF files[l.path] = None THEN <<>>
                                                   ELSE files[l.path][1])
                ips == NameToIps(instance, host).answer
            IN  /\ loaders' = [loaders EXCEPT ![1].instance = Some(instance)]
                /\ loaded' = Append(loaded, [loader |-> 1, force_reload |-> FALSE,
                                             opens |-> opens, result |-> instance])
                /\ IF ips # {}
                   THEN query' = Lookup(host, TRUE, {ParseIp(ip)[1] : ip \in ips}, FALSE)
                   ELSE \E found \in BOOLEAN :
                           query' = Lookup(host, found,
                                           IF found THEN {ParseIp(IP_v4)[1]} ELSE {}, TRUE)
         /\ UNCHANGED files
         /\ UNCHANGED <<exchangeVars, timeVars>>

\* No file, the hosts file of the tests (an IPv4 line and an IPv6 line written
\* in upper case), a file with one name at two addresses, and a file with a
\* rejected line and a comment.
LookupHostsFiles ==
    {None,
     Some(<<IP_v4 \o <<SP, "h", LF>>, IP_V6 \o <<SP, "H", SP, "d", LF>>>>),
     Some(<<IP_0v6 \o <<"\t", "d", CR, LF>>,
            <<SP>> \o IP_v4 \o <<SP, SP, "d", SP, "D", LF>>>>),
     Some(<<IP_bad \o <<SP, "h", LF>>, IP_v6 \o <<SP, "h", SP, "#", SP, "d", LF>>>>)}

\* The hosts and literals looked up.
LookupHosts ==
    {IP_v4, IP_v6, IP_V6, IP_0v6, <<":", ":", "D">>,
     <<"h">>, <<"H">>, <<"d">>, <<"D">>, <<"k">>, <<"K">>}

InitHostLookup ==
    /\ NoExchange
    /\ NoTime
    /\ \E f \in LookupHostsFiles :
          files = [p \in Paths |-> IF p = "/etc/hosts" THEN f ELSE None]
    /\ loaders = <<Loader("Hosts", "/etc/hosts", None)>>
    /\ loaded = <<>>
    /\ query = NoQuery

LookupAny == \E host \in LookupHosts : LookupHost(host)

NextHostLookup == LookupAny

SpecHostLookup == InitHostLookup /\ [][NextHostLookup]_vars

(***************************************************************************)
(* idiokit._time.FallbackTime: monotonic() over a wall clock that may jump. *)
(* Clock readings are whole ticks.                                          *)
(***************************************************************************)
MaxTime == 3
MaxTicks == 3

\* FallbackTime.__init__: origin and previous are one reading of the clock.
InitTime ==
    /\ NoExchange
    /\ NoConf
    /\ elapsed = 0
    /\ \E now \in 0..MaxTime : origin = now /\ previous = now
    /\ ticks = <<>>

Tick(was, now, result) == [was |-> was, now |-> now, result |-> result]

\* As Monotonic, without line 26: a backward jump moves the origin only.
Monotonic_NoRebase ==
    /\ Len(ticks) < MaxTicks
    /\ \E now \in 0..MaxTime :
          /\ elapsed' = elapsed
          /\ origin' = IF now < previous THEN now ELSE origin
          /\ previous' = now
          /\ ticks' = Append(ticks, Tick(previous, now, elapsed' + (now - origin')))
    /\ UNCHANGED <<exchangeVars, confVars>>

\* FallbackTime.monotonic(), with what self._time() returns.
Monotonic ==
    /\ Len(ticks) < MaxTicks
    /\ \E now \in 0..MaxTime :
          /\ elapsed' = IF now < previous THEN elapsed + (previous - origin) ELSE elapsed
          /\ origin' = IF now < previous THEN now ELSE origin
          /\ previous' = now
          /\ ticks' = Append(ticks, Tick(previous, now, elapsed' + (now - origin')))
    /\ UNCHANGED <<exchangeVars, confVars>>

NextTime == Monotonic

SpecTime == InitTime /\ [][NextTime]_vars

(***************************************************************************)
(* Properties.                                                              *)
(***************************************************************************)
Sent(op) == \E i \in DOMAIN net : net[i].op = op

ChunkedSpellings == {S_chunked, S_Chunked, S_CHUNKED}

IdentitySpellings == {S_identity, S_Identity}

CloseSpellings == {S_close, S_Close}

\* The reader the framing table of the read side prescribes, "fail" included.
TableReader(v, te, cl) ==
    IF v = HTTP10
    THEN IF cl # None THEN Reader("limited", cl) ELSE Reader("buffered", None)
    ELSE IF v = HTTP11
    THEN IF te # None /\ te[1] \in ChunkedSpellings THEN Reader("chunked", None)
         ELSE IF te = None \/ te[1] \in IdentitySpellings
         THEN IF cl # None THEN Reader("limited", cl) ELSE Reader("buffered", None)
         ELSE Reader("fail", None)
    ELSE Reader("fail", None)

\* C1: once the response headers have been read and finish() has gone on, the
\* reader is the one the read-side table gives for (version, transfer-encoding,
\* content-length): exactly one of bounded, chunked and raw, or the resolution
\* failed, and then the exchange has failed and no response was produced.
C1_ReaderMatchesTable ==
    LET expected == TableReader(status.version, respHeaders.te, respHeaders.cl)
    IN  /\ reader # NoReader =>
              /\ Sent("read_headers")
              /\ IF expected.kind = "fail"
                 THEN ReaderFailed(reader) /\ pc = "failed" /\ error = reader.kind
                 ELSE reader = expected /\ pc = "body"
        /\ pc = "body" =>
              /\ reader.kind \in {"limited", "chunked", "buffered"}
              /\ reader = expected
        /\ (Sent("read_headers") /\ pc \notin {"response", "body"}) =>
              (pc = "failed" /\ expected.kind = "fail" /\ ReaderFailed(reader))

\* HTTP/1.1, an unknown transfer-encoding and a content-length: no response.
C1_Witness ==
    /\ pc = "failed"
    /\ reader.kind = "ValueError"
    /\ status.version = HTTP11
    /\ respHeaders.te = Some(S_gzip)
    /\ respHeaders.cl # None

\* The content-length the request declares: the header, else len(data).
DeclaredLength == IF reqHeaders.cl # None THEN reqHeaders.cl[1] ELSE dataLen

BoundedRequest ==
    /\ method # "HEAD"
    /\ ~(reqHeaders.te # None /\ reqHeaders.te[1] \in ChunkedSpellings)
    /\ Sent("send_headers")

\* C2: for a request that is not HEAD and not chunked, with declared length L:
\* the body bytes sent never exceed L, a write succeeds exactly when it stays
\* within L and then sends its bytes, a failed write sends nothing, and the
\* writer's finish() succeeds exactly when L bytes have been written.
C2_BoundedWriter ==
    BoundedRequest =>
        /\ writer.kind = "limited"
        /\ BodyBytes(net) <= DeclaredLength
        /\ writer.remaining = DeclaredLength - BodyBytes(net)
        /\ last.op = "write" =>
              /\ last.ok <=> (last.before + last.n <= DeclaredLength)
              /\ BodyBytes(net) = last.before + (IF last.ok THEN last.n ELSE 0)
        /\ last.op = "finish" =>
              /\ last.ok <=> (last.before = DeclaredLength)
              /\ BodyBytes(net) = last.before
        /\ Sent("read_status_line") => BodyBytes(net) = DeclaredLength

\* content-length: 2 with an empty literal body, written in two pieces, finished.
C2_Witness ==
    /\ BoundedRequest
    /\ reqHeaders.cl = Some(2)
    /\ dataLen = 0
    /\ calls = 2
    /\ Count(net, "send_body") = 2
    /\ last = Call("finish", 0, 2, TRUE)
    /\ pc = "status"

\* C3: a HEAD request never sends a body byte; if its headers are sent they
\* carry content-length: 0; every write of a non-empty body fails.
C3_HeadHasNoBody ==
    (method = "HEAD" /\ pc # "idle") =>
        /\ BodyBytes(net) = 0
        /\ ~Sent("send_body") /\ ~Sent("send_chunk")
        /\ Sent("send_headers") => outHeaders.cl = Some(0)
        /\ (last.op = "write" /\ last.n > 0) => ~last.ok
        /\ Sent("send_request_line") \/ pc \in {"lookup", "connect", "wrap", "verify",
                                                "resolve", "send_line", "failed"}

\* A HEAD request sent with transfer-encoding: chunked whose caller tries to write.
C3_Witness ==
    /\ method = "HEAD"
    /\ reqHeaders.te = Some(S_Chunked)
    /\ pc = "open"
    /\ last.op = "write" /\ last.n > 0 /\ ~last.ok

\* The place of a network operation in the order of an exchange.
Rank ==
    [connect_failed |-> 0, connect |-> 1, wrap_socket |-> 2, getpeercert |-> 3,
     send_request_line |-> 4, send_headers |-> 5, send_body |-> 6, send_chunk |-> 6,
     send_last_chunk |-> 7, read_status_line |-> 8, read_headers |-> 9,
     read_body |-> 10]

Repeatable == {"send_body", "send_chunk", "read_body"}

\* C4: the network operations of an exchange happen in the order connect,
\* request line, request headers, body, then (after the writer's finish() has
\* succeeded) status line, response headers, response body; each step happens
\* only after the one before it, and only body writes and body reads repeat.
C4_ExchangeOrder ==
    /\ \A i \in 1..(Len(net) - 1) :
          /\ Rank[net[i].op] <= Rank[net[i + 1].op]
          /\ Rank[net[i].op] = Rank[net[i + 1].op] => net[i].op \in Repeatable
    /\ Sent("send_request_line") => Sent("connect") /\ handle
    /\ Sent("send_headers") => Sent("send_request_line")
    /\ BodyBytes(net) > 0 => Sent("send_headers")
    /\ Sent("send_last_chunk") => Sent("send_headers")
    /\ Sent("read_status_line") =>
          Sent("send_headers") /\ last.op = "finish" /\ last.ok
    /\ Sent("read_headers") => Sent("read_status_line")
    /\ pc = "body" => Sent("read_headers")
    /\ Sent("read_body") => Sent("read_headers") /\ pc = "body"

\* A chunked body over TLS, finished, and the response body read twice.
C4_Witness ==
    /\ transport = "tls"
    /\ Sent("send_chunk")
    /\ Sent("send_last_chunk")
    /\ Count(net, "read_body") = 2

ValidationErrors ==
    {"ValueError: unknown connection value",
     "ValueError: unknown transfer encoding",
     "ValueError: no content-length != 0 allowed for HEAD requests"}

RequestBytesSent ==
    \E i \in DOMAIN net :
        net[i].op \in {"send_request_line", "send_headers", "send_body",
                       "send_chunk", "send_last_chunk"}

\* C5, as stated: when request() fails with an unknown scheme or a header
\* validation error, no connection has been opened and no byte has been sent.
C5_Original ==
    (pc = "failed" /\ error \in ValidationErrors \cup {"ValueError: unknown URI scheme"})
        => (transport = "none" /\ net = <<>>)

\* C5, amended: an unknown scheme fails before host lookup, with no connection
\* opened and nothing sent; a header validation error is raised once connect
\* (and, for https, the TLS wrap) has completed and the socket was handed to
\* request(), and before any byte of the request is sent on it.
C5_ValidationAfterConnect ==
    /\ (pc = "failed" /\ error = "ValueError: unknown URI scheme") =>
          (transport = "none" /\ net = <<>> /\ lookup = <<>> /\ ~handle)
    /\ (pc = "failed" /\ error \in ValidationErrors) =>
          /\ transport # "none"
          /\ Sent("connect")
          /\ handle
          /\ ~RequestBytesSent

\* A HEAD request with a non-zero content-length, rejected on a connected socket.
C5_Witness ==
    /\ pc = "failed"
    /\ error = "ValueError: no content-length != 0 allowed for HEAD requests"
    /\ transport = "tls"
    /\ ~RequestBytesSent

\* C6: only http and https are registered, and a request with any other scheme
\* fails with the unknown-scheme error before host lookup starts and before a
\* socket is created or connected.
C6_UnknownSchemeFailsFirst ==
    /\ (pc # "idle" /\ scheme \notin {"http", "https"}) =>
          /\ pc = "failed"
          /\ error = "ValueError: unknown URI scheme"
          /\ lookup = <<>>
          /\ transport = "none"
          /\ ~handle
          /\ net = <<>>
    /\ error = "ValueError: unknown URI scheme" => scheme \notin {"http", "https"}

\* The unix-socket scheme is asked for and refused.
C6_Witness ==
    /\ pc = "failed"
    /\ scheme = "http+unix"
    /\ error = "ValueError: unknown URI scheme"

VerificationEnabled == verify \in {VerifyTrue, VerifyPath}

\* C7: for https, request() gets the socket only after the TLS wrap; with
\* verification enabled only after the peer certificate was fetched and matched
\* the hostname, a mismatch makes connect fail without handing out the socket,
\* so no request byte is sent on an unverified transport; with verification
\* disabled the certificate is not fetched and the hostname is not matched.
C7_VerifiedBeforeUse ==
    (scheme = "https" /\ pc # "idle") =>
        /\ handle => (transport = "tls" /\ Sent("wrap_socket"))
        /\ RequestBytesSent => handle
        /\ VerificationEnabled =>
              /\ handle => (Sent("getpeercert") /\ peerCert)
              /\ (Sent("getpeercert") /\ ~peerCert) =>
                    (pc = "failed" /\ error = "CertificateError" /\ ~handle)
        /\ ~VerificationEnabled =>
              /\ ~Sent("getpeercert")
              /\ error # "CertificateError"
              /\ Sent("wrap_socket") => handle

\* A request sent over TLS verified against a CA bundle.
C7_Witness ==
    /\ scheme = "https"
    /\ verify = VerifyPath
    /\ handle
    /\ peerCert
    /\ Sent("send_headers")

\* C8, as stated: connect fails only when no candidate connects, so when it has
\* failed with a socket error no candidate that host lookup had is connectable.
C8_TriesLaterCandidates ==
    (pc = "failed" /\ error = "socket.error") =>
        \A i \in DOMAIN lookup : ~lookup[i].ok

\* A line of the form VERSION SP CODE SP REASON (CR) LF: a version without a
\* space, a code of three digits, a reason without CR or LF; a is the place of
\* the first space and b the place where the terminator starts.
WellFormedAt(l, a, b) ==
    /\ a >= 2
    /\ \A i \in 1..(a - 1) : l[i] # SP
    /\ l[a] = SP
    /\ a + 4 <= Len(l)
    /\ \A i \in (a + 1)..(a + 3) : l[i] \in Digits
    /\ l[a + 4] = SP
    /\ b >= a + 5
    /\ \A i \in (a + 5)..(b - 1) : l[i] \notin {CR, LF}
    /\ SubSeq(l, b, Len(l)) \in {<<LF>>, <<CR, LF>>}

WellFormed(l) == \E a, b \in DOMAIN l : WellFormedAt(l, a, b)

\* The version tokens that name an HTTP version, with the version they name.
KnownVersions ==
    {<<S_10, HTTP10>>, <<S_11, HTTP11>>, <<S_20, [major |-> 2, minor |-> 0]>>}

\* C9: once the status line has been read: an empty line gives ConnectionLost;
\* a non-empty line that is not well-formed gives RequestError; a well-formed
\* line with an unknown version token gives RequestError; every other line
\* gives the version, the code as an integer and the reason; the outcome is
\* exactly one of the three.
C9_StatusLineOutcomes ==
    Sent("read_status_line") =>
        /\ status.kind \in {"ConnectionLost", "RequestError", "ok"}
        /\ status.kind = "ConnectionLost" <=> line = <<>>
        /\ status.kind = "RequestError" <=>
              /\ line # <<>>
              /\ \/ ~WellFormed(line)
                 \/ \E a, b \in DOMAIN line :
                       /\ WellFormedAt(line, a, b)
                       /\ \A k \in KnownVersions : k[1] # SubSeq(line, 1, a - 1)
        /\ status.kind = "ok" =>
              \E a, b \in DOMAIN line :
                 /\ WellFormedAt(line, a, b)
                 /\ \E k \in KnownVersions :
                       k[1] = SubSeq(line, 1, a - 1) /\ status.version = k[2]
                 /\ status.code = 100 * DigitVal(line[a + 1])
                                  + 10 * DigitVal(line[a + 2]) + DigitVal(line[a + 3])
                 /\ status.reason = SubSeq(line, a + 5, b - 1)
        /\ IF status.kind = "ok"
           THEN pc = "headers" /\ error = "none"
           ELSE pc = "failed" /\ error = status.kind

\* "HTTP/1.0 404 N F" ended by a bare LF.
C9_Witness ==
    /\ pc = "headers"
    /\ line = S_10 \o <<SP, "4", "0", "4", SP, "N", SP, "F", LF>>
    /\ status = [kind |-> "ok", version |-> HTTP10, code |-> 404,
                 reason |-> <<"N", SP, "F">>]

ResolvedHere == pc \notin {"idle", "lookup", "connect", "wrap", "verify", "resolve"}

\* C10: a request whose transfer-encoding is neither identity nor chunked, or
\* whose connection header is not close (both ignoring letter case), fails and
\* sends nothing, and header resolution raises these two errors for no other
\* request; a request sent without a connection header of the caller carries
\* connection: close; every request sent carries a connection header that says
\* close (in the caller's spelling).
C10_RequestHeaderValidation ==
    LET badTE == /\ reqHeaders.te # None
                 /\ reqHeaders.te[1] \notin ChunkedSpellings \cup IdentitySpellings
        badConnection == /\ reqHeaders.connection # None
                         /\ reqHeaders.connection[1] \notin CloseSpellings
    IN  /\ (ResolvedHere /\ (badTE \/ badConnection)) =>
              (pc = "failed" /\ ~RequestBytesSent)
        /\ (ResolvedHere /\ handle) =>
              /\ badConnection <=> error = "ValueError: unknown connection value"
              /\ (badTE /\ ~badConnection) <=>
                    error = "ValueError: unknown transfer encoding"
        /\ Sent("send_headers") =>
              /\ outHeaders.connection # None
              /\ outHeaders.connection[1] \in CloseSpellings
              /\ reqHeaders.connection = None => outHeaders.connection = Some(S_close)
              /\ reqHeaders.connection # None =>
                    outHeaders.connection = reqHeaders.connection

\* A request sent without a connection header of the caller.
C10_Witness ==
    /\ Sent("send_headers")
    /\ reqHeaders.connection = None
    /\ reqHeaders.te = Some(S_Chunked)
    /\ outHeaders.connection = Some(S_close)

(***************************************************************************)
(* Properties of the hosts table and of resolv.conf.                        *)
(***************************************************************************)
\* The lines of the file at path, none if it cannot be opened.
LinesAt(path) == IF files[path] = None THEN <<>> ELSE files[path][1]

\* The results of the load() calls made on loaders of the given type.
Loaded(type) ==
    {loaded[i].result : i \in {j \in DOMAIN loaded : loaders[loaded[j].loader].type = type}}

\* What the line with this text gives.
Meaning(inputs, text) == CHOOSE r \in inputs : r.text = text

\* The literals written for each canonical IP, one of them in no hosts line.
IpSpellings ==
    [ip \in {IP_v4, IP_v6, <<":", ":", "d">>} |->
        IF ip = IP_v4 THEN {IP_v4}
        ELSE IF ip = IP_v6 THEN {IP_v6, IP_V6, IP_0v6}
        ELSE {<<":", ":", "d">>, <<":", ":", "D">>}]

\* The letter-case variants of each lower-cased name, one of them in no line.
NameSpellings ==
    [n \in {<<"h">>, <<"d">>, <<"k">>} |->
        IF n = <<"h">> THEN {<<"h">>, <<"H">>}
        ELSE IF n = <<"d">> THEN {<<"d">>, <<"D">>}
        ELSE {<<"k">>, <<"K">>}]

\* For each canonical IP and lower-cased name, whether some line of the hosts
\* file gives that IP that name.
Gives ==
    LET lines == LinesAt("/etc/hosts")
        means == [i \in DOMAIN lines |-> Meaning(HostsLineInputs, lines[i])]
    IN  [ip \in DOMAIN IpSpellings, n \in DOMAIN NameSpellings |->
            \E i \in DOMAIN lines : means[i].ip = Some(ip) /\ n \in means[i].names]

\* C11: in the table Hosts.from_lines builds, a lower-cased name n is among
\* ip_to_names(ip) iff the canonical ip is among name_to_ips(n) iff some
\* accepted line gives that IP that name; this for every spelling of the IP
\* and every letter case of the name, so that lines with different spellings
\* of one IP are unioned and unknown names and IPs give nothing.
C11_HostsTableConsistent ==
    LET gives == Gives
    IN  \A t \in Loaded("Hosts") :
            /\ \A ip \in DOMAIN IpSpellings :
                  \A ipS \in IpSpellings[ip] :
                      LET names == IpToNames(t, ipS)
                      IN  /\ names.ok
                          /\ names.answer = {n \in DOMAIN NameSpellings : gives[ip, n]}
            /\ \A n \in DOMAIN NameSpellings :
                  \A nS \in NameSpellings[n] :
                      NameToIps(t, nS).answer = {ip \in DOMAIN IpSpellings : gives[ip, n]}

\* Two lines that spell one IP differently were loaded into one entry.
C11_Witness ==
    /\ Len(LinesAt("/etc/hosts")) = 2
    /\ LinesAt("/etc/hosts")[1] = IP_v6 \o <<SP, "h", SP, "#", SP, "d", LF>>
    /\ LinesAt("/etc/hosts")[2] = IP_0v6 \o <<"\t", "d", CR, LF>>
    /\ \E t \in Loaded("Hosts") :
          /\ IpToNames(t, IP_V6).answer = {<<"h">>, <<"d">>}
          /\ NameToIps(t, <<"D">>).answer = {IP_v6}

\* The canonical IP each line of resolv.conf names as a name server, or None.
Named ==
    LET lines == LinesAt("/etc/resolv.conf")
    IN  [i \in DOMAIN lines |-> Meaning(ResolvLineInputs, lines[i]).ip]

\* C12: ResolvConf.servers holds (canonical ip, 53) for every valid nameserver
\* line, whatever the letter case of the key and the spelling of the IP, holds
\* nothing else, holds no pair twice, and orders the pairs by the first line
\* that names each.
C12_ServersUniqueInOrder ==
    LET named == Named
        first == [k \in {named[i] : i \in DOMAIN named} |->
                     CHOOSE i \in DOMAIN named :
                         named[i] = k /\ \A j \in 1..(i - 1) : named[j] # k]
    IN  \A t \in Loaded("ResolvConf") :
            LET s == t.servers
            IN  /\ \A i \in DOMAIN named :
                      named[i] # None =>
                          \E k \in DOMAIN s : s[k] = [ip |-> named[i][1], port |-> 53]
                /\ \A k \in DOMAIN s :
                      s[k].port = 53 /\ \E i \in DOMAIN named : named[i] = Some(s[k].ip)
                /\ \A k, l \in DOMAIN s :
                      k < l => /\ s[k] # s[l]
                               /\ first[Some(s[k].ip)] < first[Some(s[l].ip)]

\* A server named twice, in two spellings and around another server, was
\* loaded once and before the other.
C12_Witness ==
    /\ Len(LinesAt("/etc/resolv.conf")) = 3
    /\ Named = <<Some(IP_v6), Some(IP_v4), Some(IP_v6)>>
    /\ LinesAt("/etc/resolv.conf")[1] # LinesAt("/etc/resolv.conf")[3]
    /\ \E t \in Loaded("ResolvConf") :
          t.servers = <<[ip |-> IP_v6, port |-> 53], [ip |-> IP_v4, port |-> 53]>>

\* The lines of the file at path that give something to a table of this type.
GoodLines(type, path) ==
    LET inputs == IF type = "Hosts" THEN HostsLineInputs ELSE ResolvLineInputs
        lines == LinesAt(path)
        good == {i \in DOMAIN lines : Meaning(inputs, lines[i]).ip # None}
        RECURSIVE Kept(_)
        Kept(i) == IF i > Len(lines) THEN <<>>
                   ELSE (IF i \in good THEN <<lines[i]>> ELSE <<>>) \o Kept(i + 1)
    IN  Kept(1)

\* A table or configuration without entries.
IsEmpty(t) ==
    IF t.type = "Hosts" THEN DOMAIN t.ips = {} /\ DOMAIN t.names = {}
    ELSE t.servers = <<>>

\* C13: load() of a file that cannot be opened returns an empty table or
\* configuration, and load() of a file with malformed lines (invalid IP,
\* fewer than two tokens, comment, blank) returns what parsing the file
\* without those lines returns.
C13_BadLinesSkipped ==
    \A r \in {<<loaders[loaded[i].loader], loaded[i].result>> : i \in DOMAIN loaded} :
        /\ r[2].type = r[1].type
        /\ files[r[1].path] = None => IsEmpty(r[2])
        /\ r[2] = FromLines(r[1].type, GoodLines(r[1].type, r[1].path))

\* A hosts file whose first and last lines are malformed was loaded, and the
\* line between them gave its entry.
C13_Witness ==
    /\ Len(LinesAt("/etc/hosts")) = 3
    /\ LinesAt("/etc/hosts")[1] = IP_bad \o <<SP, "h", LF>>
    /\ LinesAt("/etc/hosts")[2] = IP_v4 \o <<SP, "h", LF>>
    /\ LinesAt("/etc/hosts")[3] = IP_v4 \o <<LF>>
    /\ \E t \in Loaded("Hosts") : DOMAIN t.ips = {IP_v4} /\ t.ips[IP_v4] = {<<"h">>}

(***************************************************************************)
(* Properties of the loaders.                                               *)
(***************************************************************************)
\* C14: of the load() calls made on one loader, the first opens and parses the
\* file, and every later one opens nothing and returns what the first
\* returned, whatever force_reload is and whatever the file has become.
C14_LoadedOnce ==
    \A j \in DOMAIN loaded :
        LET earlier == {i \in 1..(j - 1) : loaded[i].loader = loaded[j].loader}
        IN  /\ loaded[j].opens <=> earlier = {}
            /\ \A i \in earlier : loaded[j].result = loaded[i].result

\* A loader was asked to reload after its file had changed, and returned the
\* table of the first call.
C14_Witness ==
    \E i, j \in DOMAIN loaded :
        /\ i < j
        /\ loaded[i].loader = loaded[j].loader
        /\ loaded[j].force_reload
        /\ LET l == loaders[loaded[j].loader]
           IN  /\ loaded[j].result # FromLines(l.type, LinesAt(l.path))
               /\ ~IsEmpty(loaded[j].result)

\* C15: of the load() calls made in one process through hosts(path), and of
\* those made through resolv_conf(path), only the first for a path opens and
\* parses the file, and every later one, also on a loader that a later call of
\* hosts(path) or resolv_conf(path) returned, returns what the first returned.
C15_ParsedOncePerPath ==
    \A i, j \in DOMAIN loaded :
        LET first == loaders[loaded[i].loader]
            later == loaders[loaded[j].loader]
        IN  (i < j /\ first.type = later.type /\ first.path = later.path) =>
                /\ ~loaded[j].opens
                /\ loaded[j].result = loaded[i].result

(***************************************************************************)
(* Properties of host lookup.                                               *)
(***************************************************************************)
\* The family and canonical text of a canonical IP.
CandidateOf(ip) == [family |-> IF ip = IP_v4 THEN "AF_INET" ELSE "AF_INET6", ip |-> ip]

\* C16: looking up an IP literal yields exactly its (family, canonical ip);
\* looking up a name that the hosts file gives to some IP yields exactly the
\* (family, canonical ip) of the IPs the file gives it, IPv6 in lower case,
\* and asks no name server; looking up a name that is in no line of the hosts
\* file and that the name servers do not resolve fails as not found and yields
\* no candidate.
C16_HostsBeforeResolver ==
    query.op = "host_lookup" =>
        LET gives == Gives
            literal == {ip \in DOMAIN IpSpellings : query.arg \in IpSpellings[ip]}
            name == {n \in DOMAIN NameSpellings : query.arg \in NameSpellings[n]}
            inHosts == {ip \in DOMAIN IpSpellings : \E n \in name : gives[ip, n]}
        IN  /\ literal # {} =>
                  /\ query.ok /\ ~query.network
                  /\ query.answer = {CandidateOf(ip) : ip \in literal}
            /\ (literal = {} /\ inHosts # {}) =>
                  /\ query.ok /\ ~query.network
                  /\ query.answer = {CandidateOf(ip) : ip \in inHosts}
            /\ (literal = {} /\ inHosts = {}) =>
                  /\ query.network
                  /\ ~query.ok => query.answer = {}

\* The name the tests' hosts file writes in upper case next to an upper-case
\* IPv6 literal was looked up in lower case, and the lookup answered from the
\* hosts table.
C16_Witness ==
    /\ LinesAt("/etc/hosts") = <<IP_v4 \o <<SP, "h", LF>>, IP_V6 \o <<SP, "H", SP, "d", LF>>>>
    /\ query = Lookup(<<"h">>, TRUE, {CandidateOf(IP_v4), CandidateOf(IP_v6)}, FALSE)

(***************************************************************************)
(* Properties of FallbackTime.                                              *)
(***************************************************************************)
\* What the call before the k-th returned; nothing has elapsed before the first.
ReturnedBefore(k) == IF k = 1 THEN 0 ELSE ticks[k - 1].result

\* C20: each monotonic() call returns a value that is not negative and not
\* below the value of the call before; when the wall clock went backwards
\* since the reading before, it returns exactly the value of the call before,
\* and otherwise that value plus the difference of the two readings.
C20_MonotonicNeverDecreases ==
    \A k \in DOMAIN ticks :
        /\ ticks[k].result >= 0
        /\ ticks[k].result >= ReturnedBefore(k)
        /\ ticks[k].now < ticks[k].was => ticks[k].result = ReturnedBefore(k)
        /\ ticks[k].now >= ticks[k].was =>
               ticks[k].result = ReturnedBefore(k) + (ticks[k].now - ticks[k].was)

\* The clock advanced, jumped back below where the object was made, and
\* advanced again.
C20_Witness ==
    /\ Len(ticks) = 3
    /\ ticks[1].now > ticks[1].was
    /\ ticks[2].now < ticks[1].was
    /\ ticks[3].now > ticks[2].now
    /\ ticks[3].result > ticks[1].result

(***************************************************************************)
(* Properties of the request framing, the chunked writer and the transport. *)
(***************************************************************************)
\* The headers given to write_headers declare transfer-encoding: chunked.
ChunkedDeclared == outHeaders.te # None /\ outHeaders.te[1] \in ChunkedSpellings

\* C17: once the headers of a request are sent, its writer is the zero-length
\* or bounded writer exactly when a content-length header was sent, which then
\* equals the writer's limit, and is the chunked writer exactly when
\* transfer-encoding: chunked was sent; no request is sent with both
\* transfer-encoding: chunked and content-length.
C17_OneFramingDeclared ==
    Sent("send_headers") =>
        /\ writer.kind \in {"limited", "chunked"}
        /\ outHeaders.cl # None <=> writer.kind = "limited"
        /\ (writer.kind = "limited" /\ pc = "send_data") =>
               outHeaders.cl = Some(writer.remaining)
        /\ ChunkedDeclared <=> writer.kind = "chunked"
        /\ ~(ChunkedDeclared /\ outHeaders.cl # None)

BodyOps == {"send_body", "send_chunk", "send_last_chunk"}

C19_ClosedAfterFailure ==
    (pc = "failed" /\ Sent("connect")) => transport = "closed"

====
